---- MODULE Spec2Model ----
(***************************************************************************)
(* Model of the Stellify MCP server: the bootstrap of src/src/index.ts,    *)
(* its tool catalogue, the tools/list and tools/call request handlers and  *)
(* the StellifyClient of src/src/stellify-client.ts.                       *)
(*                                                                         *)
(* JavaScript values are records [k, s, o]: k the kind, s the string form  *)
(* as a sequence of chunks (a template literal yields the concatenation of *)
(* the chunks of its parts), o the own properties of an object.            *)
(***************************************************************************)
EXTENDS Integers, Sequences, FiniteSets, TLC

VARIABLES
    env,        \* process.env: STELLIFY_API_TOKEN and STELLIFY_API_URL
    pc,         \* position of the top-level script of index.ts
    exitCode,   \* argument of process.exit, -1 while the process runs
    stderr,     \* lines written with console.error
    stellify,   \* the StellifyClient instance (its axios defaults)
    handlers,   \* request schemas with a handler set on the server
    call,       \* per slot: the tools/call handler suspended at its await
    last,       \* the request answered last, until the client has read the answer
    prev,       \* the request answered before: in full when the client repeats
                \* it, else a summary
    listed,     \* result of the tools/list request answered last
    failures    \* invocations that ended in a failure or a fault, counted
                \* up to MaxFailures

vars == <<env, pc, exitCode, stderr, stellify, handlers, call, last, prev,
          listed, failures>>

\* Bounds of the model.
MaxInFlight == 2
MaxFailures == 1

----------------------------------------------------------------------------
\* JavaScript values

NoFields == [x \in {} |-> x]

Undef == [k |-> "undefined", s |-> <<"undefined">>, o |-> NoFields]

Null == [k |-> "null", s |-> <<"null">>, o |-> NoFields]

Str(x) == [k |-> "string", s |-> IF x = "" THEN <<>> ELSE <<x>>, o |-> NoFields]

Text(chunks) == [k |-> "string", s |-> chunks, o |-> NoFields]

Num(n) == [k |-> "number", s |-> <<ToString(n)>>, o |-> NoFields]

Bool(b) == [k |-> "boolean", s |-> IF b THEN <<"true">> ELSE <<"false">>, o |-> NoFields]

Obj(fields) == [k |-> "object", s |-> <<"[object Object]">>, o |-> fields]

\* An array of n plain objects; only its length is modelled as a property.
Arr(n) ==
    [k |-> "array",
     s |-> [i \in 1..(IF n = 0 THEN 0 ELSE 2 * n - 1) |->
              IF i % 2 = 1 THEN "[object Object]" ELSE ","],
     o |-> [f \in {"length"} |-> Num(n)]]

Nullish(v) == v.k \in {"undefined", "null"}

\* ToBoolean
Truthy(v) ==
    CASE v.k \in {"undefined", "null"} -> FALSE
      [] v.k = "string" -> v.s # <<>>
      [] v.k = "number" -> v.s # <<"0">>
      [] v.k = "boolean" -> v.s = <<"true">>
      [] OTHER -> TRUE

\* Number of characters of a string given as chunks.
RECURSIVE CharLen(_)
CharLen(chunks) ==
    IF chunks = <<>> THEN 0 ELSE Len(Head(chunks)) + CharLen(Tail(chunks))

\* Property read on a value that is not null or undefined.
Get(v, f) ==
    IF v.k = "string" /\ f = "length" THEN Num(CharLen(v.s))
    ELSE IF f \in DOMAIN v.o THEN v.o[f] ELSE Undef

\* Object.keys(v).length for a value that is not null or undefined.
KeyCount(v) ==
    CASE v.k = "object" -> Cardinality(DOMAIN v.o)
      [] v.k = "array" -> (Len(v.s) + 1) \div 2
      [] v.k = "string" -> CharLen(v.s)
      [] OTHER -> 0

\* ToString succeeds unless an object carries an own, non-callable toString
\* (JSON cannot carry functions): OrdinaryToPrimitive then finds no method
\* that yields a primitive and throws a TypeError.
Printable(v) == ~(v.k \in {"object", "array"} /\ "toString" \in DOMAIN v.o)

\* { ...obj, f: x }
SetField(v, f, x) ==
    Obj([g \in (DOMAIN v.o) \cup {f} |-> IF g = f THEN x ELSE v.o[g]])

\* const { f, ...rest } = obj
Rest(v, fs) == Obj([g \in (DOMAIN v.o) \ fs |-> v.o[g]])

\* JSON.stringify followed by JSON.parse: properties whose value is
\* undefined are dropped, at every depth.
RECURSIVE Stringify(_)
Stringify(v) ==
    IF v.k = "object"
    THEN Obj([f \in {g \in DOMAIN v.o : v.o[g].k # "undefined"} |-> Stringify(v.o[f])])
    ELSE v

----------------------------------------------------------------------------
\* Errors and the evaluation of expressions that may throw

NoError == [name |-> "", message |-> <<>>, response |-> Undef]

\* new Error(message)
Error(message) == [name |-> "Error", message |-> message, response |-> Undef]

TypeError(message) == [name |-> "TypeError", message |-> message, response |-> Undef]

\* Error.prototype.toString
ErrorToString(e) == <<e.name, ": ">> \o e.message

Ok(v) == [threw |-> FALSE, v |-> v, error |-> NoError]

Throw(e) == [threw |-> TRUE, v |-> Undef, error |-> e]

\* r.f
Member(r, f) ==
    IF r.threw THEN r
    ELSE IF Nullish(r.v)
         THEN Throw(TypeError(<<"Cannot read properties of ">> \o r.v.s
                              \o <<" (reading '", f, "')">>))
         ELSE Ok(Get(r.v, f))

\* r?.f
OptMember(r, f) ==
    IF r.threw THEN r
    ELSE IF Nullish(r.v) THEN Ok(Undef) ELSE Ok(Get(r.v, f))

\* a || b
OrElse(a, b) == IF a.threw \/ Truthy(a.v) THEN a ELSE b

\* c ? a : b
Cond(c, a, b) == IF c.threw THEN c ELSE IF Truthy(c.v) THEN a ELSE b

Lit(x) == Ok(Str(x))

\* A template literal: parts are evaluated and converted left to right.
RECURSIVE TemplateFrom(_, _, _)
TemplateFrom(parts, i, acc) ==
    IF i > Len(parts) THEN Ok(Text(acc))
    ELSE IF parts[i].threw THEN parts[i]
    ELSE IF ~Printable(parts[i].v)
         THEN Throw(TypeError(<<"Cannot convert object to primitive value">>))
         ELSE TemplateFrom(parts, i + 1, acc \o parts[i].v.s)

Template(parts) == TemplateFrom(parts, 1, <<>>)

\* An object literal: props is a sequence of <<key, evaluated value>>.
ObjectLiteral(props) ==
    IF \E i \in 1..Len(props) : props[i][2].threw
    THEN props[CHOOSE i \in 1..Len(props) :
                 /\ props[i][2].threw
                 /\ \A j \in 1..(i - 1) : ~props[j][2].threw][2]
    ELSE Ok(Obj([f \in {props[i][1] : i \in 1..Len(props)} |->
                   props[CHOOSE i \in 1..Len(props) : props[i][1] = f][2].v]))

----------------------------------------------------------------------------
\* The tool catalogue (const tools): each descriptor's name and the
\* required list of its inputSchema.

Tool(name, required) == [name |-> name, required |-> required]

tools ==
    << Tool("get_project", <<>>),
       Tool("create_file", <<"directory", "name", "type">>),
       Tool("create_method", <<"file", "name">>),
       Tool("add_method_body", <<"file", "method", "code">>),
       Tool("save_method", <<"uuid">>),
       Tool("search_methods", <<>>),
       Tool("search_files", <<>>),
       Tool("create_route", <<"project_id", "name", "path", "method">>),
       Tool("get_route", <<"uuid">>),
       Tool("search_routes", <<>>),
       Tool("create_element", <<"type">>),
       Tool("update_element", <<"uuid", "data">>),
       Tool("get_element", <<"uuid">>),
       Tool("get_element_tree", <<"uuid">>),
       Tool("delete_element", <<"uuid">>),
       Tool("search_elements", <<>>),
       Tool("html_to_elements", <<"elements">>),
       Tool("list_globals", <<>>),
       Tool("get_global", <<"uuid">>),
       Tool("install_global", <<"file_uuid", "directory_uuid">>),
       Tool("search_global_methods", <<"query">>),
       Tool("list_modules", <<>>),
       Tool("get_module", <<"uuid">>),
       Tool("create_module", <<"name">>),
       Tool("add_file_to_module", <<"module_uuid", "file_uuid">>),
       Tool("install_module", <<"module_uuid", "directory_uuid">>),
       Tool("get_statement", <<"uuid">>),
       Tool("create_statement", <<>>),
       Tool("add_statement_code", <<"file", "statement", "code">>),
       Tool("save_file", <<"uuid", "name", "type">>),
       Tool("get_file", <<"uuid">>),
       Tool("get_directory", <<"uuid">>),
       Tool("create_directory", <<"name">>) >>

ToolNames == {tools[i].name : i \in 1..Len(tools)}

----------------------------------------------------------------------------
\* StellifyClient: every method builds one axios request on this.client.

NoClient == [baseURL |-> Undef, Authorization |-> <<>>]

\* constructor: axios.create({ baseURL, headers: { Authorization } })
StellifyClient(config) ==
    [baseURL |-> config.apiUrl,
     Authorization |-> Template(<<Lit("Bearer "), Ok(config.apiToken)>>).v.s]

NoRequest ==
    [method |-> "", baseURL |-> Undef, Authorization |-> <<>>, url |-> <<>>,
     data |-> Undef, params |-> Undef]

\* Variant of Send that uses axios itself, not the instance with its
\* defaults.
Send_WithoutDefaults(verb, url, data, params) ==
    IF url.threw
    THEN [threw |-> TRUE, error |-> url.error, req |-> NoRequest]
    ELSE [threw |-> FALSE, error |-> NoError,
          req |-> [method |-> verb, baseURL |-> Undef,
                   Authorization |-> <<>>, url |-> url.v.s,
                   data |-> Stringify(data), params |-> Stringify(params)]]

\* this.client.<verb>(url, ...): the request axios sends. The url is a
\* template literal, so the method throws before sending when it cannot be
\* built. Body and query are serialized, which drops undefined properties.
Send(verb, url, data, params) ==
    IF url.threw
    THEN [threw |-> TRUE, error |-> url.error, req |-> NoRequest]
    ELSE [threw |-> FALSE, error |-> NoError,
          req |-> [method |-> verb, baseURL |-> stellify.baseURL,
                   Authorization |-> stellify.Authorization, url |-> url.v.s,
                   data |-> Stringify(data), params |-> Stringify(params)]]

post(url, data) == Send("POST", url, data, Undef)

put(url, data) == Send("PUT", url, data, Undef)

get(url) == Send("GET", url, Undef, Undef)

getWithParams(url, params) == Send("GET", url, Undef, params)

delete(url) == Send("DELETE", url, Undef, Undef)

createFile(params) == post(Lit("/file"), params)

createMethod(params) == post(Lit("/method"), params)

addMethodBody(params) == post(Lit("/code"), params)

addStatementCode(params) == post(Lit("/code"), params)

searchMethods(params) == getWithParams(Lit("/method/search"), params)

searchFiles(params) == getWithParams(Lit("/file/search"), params)

getFile(uuid) == get(Template(<<Lit("/file/"), Ok(uuid)>>))

\* Variant of saveFile that leaves the uuid out of the body.
saveFile_WithoutUuid(uuid, data) ==
    put(Template(<<Lit("/file/"), Ok(uuid)>>), Rest(data, {"uuid"}))


saveFile(uuid, data) == put(Template(<<Lit("/file/"), Ok(uuid)>>), data)

saveMethod(uuid, data) == put(Template(<<Lit("/method/"), Ok(uuid)>>), data)

createStatement(params) == post(Lit("/statement"), params)

getStatement(uuid) == get(Template(<<Lit("/statement/"), Ok(uuid)>>))

createRoute(params) == post(Lit("/route"), params)

getRoute(uuid) == get(Template(<<Lit("/route/"), Ok(uuid)>>))

searchRoutes(params) == getWithParams(Lit("/route/search"), params)

createElement(params) == post(Lit("/element"), params)

\* Variant of updateElement that sends the attributes wrapped with the uuid.
updateElement_Wrapped(uuid, data) ==
    put(Template(<<Lit("/element/"), Ok(uuid)>>), Obj([uuid |-> uuid, data |-> data]))


updateElement(uuid, data) == put(Template(<<Lit("/element/"), Ok(uuid)>>), data)

getElement(uuid) == get(Template(<<Lit("/element/"), Ok(uuid)>>))

getElementTree(uuid) == get(Template(<<Lit("/element/"), Ok(uuid), Lit("/tree")>>))

\* Variant of deleteElement without the page and current segments.
deleteElement_UuidOnly(uuid, page, current) ==
    delete(Template(<<Lit("/element/"), Ok(uuid)>>))


deleteElement(uuid, page, current) ==
    delete(Template(<<Lit("/element/"), OrElse(Ok(page), Lit("null")), Lit("/"),
                      OrElse(Ok(current), Lit("null")), Lit("/"), Ok(uuid)>>))

searchElements(params) == getWithParams(Lit("/element/search"), params)

htmlToElements(params) == post(Lit("/html/elements"), params)

listGlobals == get(Lit("/globals/"))

getGlobal(uuid) == get(Template(<<Lit("/globals/file/"), Ok(uuid)>>))

installGlobal(params) == post(Lit("/globals/install"), params)

searchGlobalMethods(params) == post(Lit("/method/search-global"), params)

listModules == get(Lit("/modules/"))

getModule(uuid) == get(Template(<<Lit("/modules/"), Ok(uuid)>>))

createModule(params) == post(Lit("/modules/"), params)

addFileToModule(params) == post(Lit("/modules/add-file"), params)

installModule(params) == post(Lit("/modules/install"), params)

getDirectory(uuid) == get(Template(<<Lit("/directory/"), Ok(uuid)>>))

createDirectory(params) == post(Lit("/directory"), params)

getProject == get(Lit("/getProject"))

\* Methods of the client that no case of the handler calls.
getMethod(uuid) == get(Template(<<Lit("/method/"), Ok(uuid)>>))

saveStatement(uuid, data) == put(Template(<<Lit("/statement/"), Ok(uuid)>>), data)

removeFileFromModule(moduleUuid, fileUuid) ==
    delete(Template(<<Lit("/modules/"), Ok(moduleUuid), Lit("/file/"), Ok(fileUuid)>>))

deleteModule(uuid) == delete(Template(<<Lit("/modules/"), Ok(uuid)>>))

saveDirectory(uuid, data) ==
    put(Template(<<Lit("/directory/"), Ok(uuid)>>), Obj([uuid |-> uuid, data |-> data]))

----------------------------------------------------------------------------
\* What the awaited axios call settles with

NoResponse == [kind |-> "none", status |-> 0, data |-> Undef]

\* An HTTP response with a status and a parsed body.
Response(status, data) == [kind |-> "response", status |-> status, data |-> data]

\* No response at all (connection refused, DNS failure, reset).
NetworkFailure == [kind |-> "network", status |-> 0, data |-> Undef]

AxiosError(message, response) ==
    [name |-> "AxiosError", message |-> message, response |-> response]

\* axios's default validateStatus.
Is2xx(resp) == resp.kind = "response" /\ resp.status >= 200 /\ resp.status < 300

\* Variant of ClientReturn that unwraps the body: response.data.data || response.data
ClientReturn_Unwrapped(resp) ==
    IF resp.kind = "network"
    THEN Throw(AxiosError(<<"Network Error">>, Undef))
    ELSE IF Is2xx(resp)
         THEN OrElse(OptMember(Ok(resp.data), "data"), Ok(resp.data))
         ELSE Throw(AxiosError(<<"Request failed with status code ", ToString(resp.status)>>,
                               Obj([status |-> Num(resp.status), data |-> resp.data])))

\* const response = await this.client.<verb>(...); return response.data;
\* axios resolves for a 2xx status and rejects otherwise.
ClientReturn(resp) ==
    IF resp.kind = "network"
    THEN Throw(AxiosError(<<"Network Error">>, Undef))
    ELSE IF Is2xx(resp)
         THEN Ok(resp.data)
         ELSE Throw(AxiosError(<<"Request failed with status code ", ToString(resp.status)>>,
                               Obj([status |-> Num(resp.status), data |-> resp.data])))

----------------------------------------------------------------------------
\* The switch of the tools/call handler, after the awaited client call has
\* returned result: each case evaluates the object it passes to
\* JSON.stringify. A is the argument bag, R the client's return value.

True == Ok(Bool(TRUE))

\* result.data || result
DataOrResult(R) == OrElse(Member(R, "data"), R)

case_get_project(args, result) ==
    LET R == Ok(result) IN
    ObjectLiteral(<<
        <<"success", True>>,
        <<"message", Template(<<Lit("Active project: \""),
                                OrElse(OptMember(Member(R, "data"), "name"), Member(R, "name")),
                                Lit("\" ("),
                                OrElse(OptMember(Member(R, "data"), "uuid"), Member(R, "uuid")),
                                Lit(")")>>)>>,
        <<"project", DataOrResult(R)>> >>)

\* Variant of case_create_file that reads result.data without "|| result".
case_create_file_NoFallback(args, result) ==
    LET A == Ok(args)
        fileData == Member(Ok(result), "data") IN
    ObjectLiteral(<<
        <<"success", True>>,
        <<"message", Template(<<Lit("Created file \""), Member(A, "name"),
                                Lit("\" (UUID: "), Member(fileData, "uuid"), Lit(")")>>)>>,
        <<"file", fileData>> >>)

case_create_file(args, result) ==
    LET A == Ok(args)
        fileData == DataOrResult(Ok(result)) IN
    ObjectLiteral(<<
        <<"success", True>>,
        <<"message", Template(<<Lit("Created file \""), Member(A, "name"),
                                Lit("\" (UUID: "), Member(fileData, "uuid"), Lit(")")>>)>>,
        <<"file", fileData>> >>)

case_create_method(args, result) ==
    LET A == Ok(args)
        methodData == DataOrResult(Ok(result)) IN
    ObjectLiteral(<<
        <<"success", True>>,
        <<"message", Template(<<Lit("Created method \""), Member(A, "name"),
                                Lit("\" (UUID: "), Member(methodData, "uuid"), Lit(")")>>)>>,
        <<"method", methodData>> >>)

case_save_method(args, result) ==
    LET uuid == Get(args, "uuid") IN
    ObjectLiteral(<<
        <<"success", True>>,
        <<"message", Template(<<Lit("Updated method \""), Ok(uuid), Lit("\"")>>)>>,
        <<"method", Ok(result)>> >>)

case_add_method_body(args, result) ==
    ObjectLiteral(<<
        <<"success", True>>,
        <<"message", Lit("Method body parsed and saved successfully")>>,
        <<"data", Ok(result)>> >>)

case_search_methods(args, result) ==
    ObjectLiteral(<< <<"success", True>>, <<"results", Ok(result)>> >>)

case_search_files(args, result) ==
    ObjectLiteral(<< <<"success", True>>, <<"results", Ok(result)>> >>)

case_create_route(args, result) ==
    LET A == Ok(args)
        routeData == DataOrResult(Ok(result)) IN
    ObjectLiteral(<<
        <<"success", True>>,
        <<"message", Template(<<Lit("Created route \""), Member(A, "name"), Lit("\" at "),
                                Member(A, "path"), Lit(" (UUID: "), Member(routeData, "uuid"),
                                Lit("). Use this UUID for html_to_elements page parameter.")>>)>>,
        <<"route", routeData>> >>)

case_get_route(args, result) ==
    LET routeData == DataOrResult(Ok(result)) IN
    ObjectLiteral(<<
        <<"success", True>>,
        <<"message", Template(<<Lit("Route: \""), Member(routeData, "name"), Lit("\" at "),
                                Member(routeData, "path")>>)>>,
        <<"route", routeData>> >>)

case_search_routes(args, result) ==
    LET routes == DataOrResult(Ok(result))
        routeCount == IF routes.threw THEN routes
                      ELSE IF routes.v.k = "array" THEN Member(routes, "length")
                      ELSE Ok(Num(KeyCount(routes.v))) IN
    ObjectLiteral(<<
        <<"success", True>>,
        <<"message", Template(<<Lit("Found "), routeCount, Lit(" routes")>>)>>,
        <<"routes", routes>> >>)

case_create_element(args, result) ==
    ObjectLiteral(<<
        <<"success", True>>,
        <<"message", Template(<<Lit("Created element of type \""), Member(Ok(args), "type"),
                                Lit("\"")>>)>>,
        <<"element", Ok(result)>> >>)

case_update_element(args, result) ==
    LET uuid == Get(args, "uuid") IN
    ObjectLiteral(<<
        <<"success", True>>,
        <<"message", Template(<<Lit("Updated element "), Ok(uuid)>>)>>,
        <<"element", Ok(result)>> >>)

case_get_element(args, result) ==
    ObjectLiteral(<< <<"success", True>>, <<"element", Ok(result)>> >>)

case_get_element_tree(args, result) ==
    LET uuid == Get(args, "uuid") IN
    ObjectLiteral(<<
        <<"success", True>>,
        <<"message", Template(<<Lit("Retrieved element tree for "), Ok(uuid)>>)>>,
        <<"tree", Ok(result)>> >>)

\* Variant of case_delete_element that reads result.data.deleted_count.
case_delete_element_FromData(args, result) ==
    LET uuid == Get(args, "uuid")
        R == Ok(result) IN
    ObjectLiteral(<<
        <<"success", True>>,
        <<"message", Template(<<Lit("Deleted element "), Ok(uuid), Lit(" and "),
                                Member(Member(R, "data"), "deleted_count"),
                                Lit(" total elements")>>)>>,
        <<"deleted_count", Member(Member(R, "data"), "deleted_count")>> >>)

case_delete_element(args, result) ==
    LET uuid == Get(args, "uuid")
        R == Ok(result) IN
    ObjectLiteral(<<
        <<"success", True>>,
        <<"message", Template(<<Lit("Deleted element "), Ok(uuid), Lit(" and "),
                                Member(R, "deleted_count"), Lit(" total elements")>>)>>,
        <<"deleted_count", Member(R, "deleted_count")>> >>)

case_search_elements(args, result) ==
    LET R == Ok(result) IN
    ObjectLiteral(<<
        <<"success", True>>,
        <<"message", Template(<<Lit("Found "), Member(Member(R, "data"), "length"),
                                Lit(" elements")>>)>>,
        <<"elements", Member(R, "data")>>,
        <<"pagination", Member(R, "pagination")>> >>)

case_html_to_elements(args, result) ==
    LET R == Ok(result)
        keyed == OrElse(Member(R, "data"), Ok(Obj(NoFields)))
        elementCount == IF keyed.threw THEN keyed ELSE Ok(Num(KeyCount(keyed.v)))
        testMode == Cond(Member(Ok(args), "test"), Lit(" (TEST MODE - not created)"), Lit("")) IN
    ObjectLiteral(<<
        <<"success", True>>,
        <<"message", Template(<<Lit("Converted HTML to "), elementCount, Lit(" elements"),
                                testMode>>)>>,
        <<"elements", Member(R, "data")>> >>)

\* `Found ${result.data?.length || 0} <what>`
FoundMessage(R, what) ==
    Template(<<Lit("Found "),
               OrElse(OptMember(Member(R, "data"), "length"), Ok(Num(0))),
               Lit(what)>>)

\* result.data?.<f>
DataField(R, f) == OptMember(Member(R, "data"), f)

case_list_globals(args, result) ==
    LET R == Ok(result) IN
    ObjectLiteral(<<
        <<"success", True>>,
        <<"message", FoundMessage(R, " globals")>>,
        <<"globals", Member(R, "data")>> >>)

case_get_global(args, result) ==
    ObjectLiteral(<< <<"success", True>>, <<"global", Ok(result)>> >>)

case_install_global(args, result) ==
    LET R == Ok(result) IN
    ObjectLiteral(<<
        <<"success", True>>,
        <<"message", Template(<<Lit("Installed global \""), DataField(R, "file_name"),
                                Lit("\" ("), DataField(R, "methods_copied"), Lit(" methods, "),
                                DataField(R, "statements_copied"), Lit(" statements)")>>)>>,
        <<"data", Member(R, "data")>> >>)

case_search_global_methods(args, result) ==
    LET R == Ok(result) IN
    ObjectLiteral(<<
        <<"success", True>>,
        <<"message", FoundMessage(R, " global methods")>>,
        <<"methods", Member(R, "data")>> >>)

case_list_modules(args, result) ==
    LET R == Ok(result) IN
    ObjectLiteral(<<
        <<"success", True>>,
        <<"message", FoundMessage(R, " modules")>>,
        <<"modules", Member(R, "data")>> >>)

case_get_module(args, result) ==
    LET R == Ok(result) IN
    ObjectLiteral(<<
        <<"success", True>>,
        <<"module", Member(R, "module")>>,
        <<"files", Member(R, "files")>> >>)

case_create_module(args, result) ==
    LET R == Ok(result) IN
    ObjectLiteral(<<
        <<"success", True>>,
        <<"message", Template(<<Lit("Created module \""), DataField(R, "name"), Lit("\"")>>)>>,
        <<"data", Member(R, "data")>> >>)

case_add_file_to_module(args, result) ==
    LET R == Ok(result) IN
    ObjectLiteral(<<
        <<"success", True>>,
        <<"message", Template(<<Lit("Added \""), DataField(R, "file_name"),
                                Lit("\" to module (order: "), DataField(R, "order"), Lit(")")>>)>>,
        <<"data", Member(R, "data")>> >>)

case_install_module(args, result) ==
    LET R == Ok(result) IN
    ObjectLiteral(<<
        <<"success", True>>,
        <<"message", Template(<<Lit("Installed module \""), DataField(R, "module_name"),
                                Lit("\" ("), DataField(R, "files_installed"), Lit(" files, "),
                                DataField(R, "methods_copied"), Lit(" methods, "),
                                DataField(R, "statements_copied"), Lit(" statements)")>>)>>,
        <<"data", Member(R, "data")>> >>)

case_get_statement(args, result) ==
    LET R == Ok(result) IN
    ObjectLiteral(<<
        <<"success", True>>,
        <<"message", Lit("Statement retrieved")>>,
        <<"statement", OrElse(Member(R, "statement"), R)>>,
        <<"clauses", OrElse(Member(R, "clauses"), Ok(Null))>> >>)

case_create_statement(args, result) ==
    LET R == Ok(result) IN
    ObjectLiteral(<<
        <<"success", True>>,
        <<"message", Template(<<Lit("Created statement ("),
                                OrElse(DataField(R, "uuid"), Member(R, "uuid")), Lit(")")>>)>>,
        <<"statement", DataOrResult(R)>> >>)

case_add_statement_code(args, result) ==
    ObjectLiteral(<<
        <<"success", True>>,
        <<"message", Lit("Statement code added successfully")>>,
        <<"data", Ok(result)>> >>)

case_save_file(args, result) ==
    LET uuid == Get(args, "uuid")
        data == Rest(args, {"uuid"}) IN
    ObjectLiteral(<<
        <<"success", True>>,
        <<"message", Template(<<Lit("Saved file \""),
                                OrElse(Member(Ok(data), "name"), Ok(uuid)), Lit("\"")>>)>>,
        <<"file", Ok(result)>> >>)

case_get_file(args, result) ==
    ObjectLiteral(<< <<"success", True>>, <<"file", Ok(result)>> >>)

case_get_directory(args, result) ==
    LET dirData == DataOrResult(Ok(result)) IN
    ObjectLiteral(<<
        <<"success", True>>,
        <<"message", Template(<<Lit("Directory: \""), Member(dirData, "name"), Lit("\" ("),
                                Member(dirData, "uuid"), Lit(")")>>)>>,
        <<"directory", dirData>> >>)

case_create_directory(args, result) ==
    LET R == Ok(result)
        A == Ok(args)
        tail == <<Member(A, "name"), Lit("\" ("),
                  OrElse(DataField(R, "uuid"), Member(R, "uuid")), Lit(")")>> IN
    ObjectLiteral(<<
        <<"success", True>>,
        <<"message", Cond(Member(R, "existing"),
                          Template(<<Lit("Using existing directory \"")>> \o tail),
                          Template(<<Lit("Created directory \"")>> \o tail))>>,
        <<"directory", DataOrResult(R)>>,
        <<"existing", OrElse(Member(R, "existing"), Ok(Bool(FALSE)))>> >>)

----------------------------------------------------------------------------
\* The tools/call handler

\* The client call each case of the switch awaits.
ClientCall(name, args) ==
    CASE name = "get_project" -> getProject
      [] name = "create_file" -> createFile(args)
      [] name = "create_method" -> createMethod(args)
      [] name = "save_method" ->
            saveMethod(Get(args, "uuid"),
                       SetField(Rest(args, {"uuid"}), "uuid", Get(args, "uuid")))
      [] name = "add_method_body" -> addMethodBody(args)
      [] name = "search_methods" -> searchMethods(args)
      [] name = "search_files" -> searchFiles(args)
      [] name = "create_route" -> createRoute(args)
      [] name = "get_route" -> getRoute(Get(args, "uuid"))
      [] name = "search_routes" -> searchRoutes(args)
      [] name = "create_element" -> createElement(args)
      [] name = "update_element" -> updateElement(Get(args, "uuid"), Get(args, "data"))
      [] name = "get_element" -> getElement(Get(args, "uuid"))
      [] name = "get_element_tree" -> getElementTree(Get(args, "uuid"))
      [] name = "delete_element" -> deleteElement(Get(args, "uuid"), Undef, Undef)
      [] name = "search_elements" -> searchElements(args)
      [] name = "html_to_elements" -> htmlToElements(args)
      [] name = "list_globals" -> listGlobals
      [] name = "get_global" -> getGlobal(Get(args, "uuid"))
      [] name = "install_global" -> installGlobal(args)
      [] name = "search_global_methods" -> searchGlobalMethods(args)
      [] name = "list_modules" -> listModules
      [] name = "get_module" -> getModule(Get(args, "uuid"))
      [] name = "create_module" -> createModule(args)
      [] name = "add_file_to_module" -> addFileToModule(args)
      [] name = "install_module" -> installModule(args)
      [] name = "get_statement" -> getStatement(Get(args, "uuid"))
      [] name = "create_statement" -> createStatement(args)
      [] name = "add_statement_code" -> addStatementCode(args)
      [] name = "save_file" ->
            saveFile(Get(args, "uuid"),
                     SetField(Rest(args, {"uuid"}), "uuid", Get(args, "uuid")))
      [] name = "get_file" -> getFile(Get(args, "uuid"))
      [] name = "get_directory" -> getDirectory(Get(args, "uuid"))
      [] name = "create_directory" -> createDirectory(args)

\* Variant of CaseNames in which the switch lacks the case of the last tool.
CaseNames_WithoutLast == ToolNames \ {"create_directory"}

\* The names the switch has a case for.
CaseNames ==
    {"get_project", "create_file", "create_method", "save_method", "add_method_body",
     "search_methods", "search_files", "create_route", "get_route", "search_routes",
     "create_element", "update_element", "get_element", "get_element_tree",
     "delete_element", "search_elements", "html_to_elements", "list_globals",
     "get_global", "install_global", "search_global_methods", "list_modules",
     "get_module", "create_module", "add_file_to_module", "install_module",
     "get_statement", "create_statement", "add_statement_code", "save_file",
     "get_file", "get_directory", "create_directory"}

\* The object a case passes to JSON.stringify once its client call returned.
CaseBody(name, args, result) ==
    CASE name = "get_project" -> case_get_project(args, result)
      [] name = "create_file" -> case_create_file(args, result)
      [] name = "create_method" -> case_create_method(args, result)
      [] name = "save_method" -> case_save_method(args, result)
      [] name = "add_method_body" -> case_add_method_body(args, result)
      [] name = "search_methods" -> case_search_methods(args, result)
      [] name = "search_files" -> case_search_files(args, result)
      [] name = "create_route" -> case_create_route(args, result)
      [] name = "get_route" -> case_get_route(args, result)
      [] name = "search_routes" -> case_search_routes(args, result)
      [] name = "create_element" -> case_create_element(args, result)
      [] name = "update_element" -> case_update_element(args, result)
      [] name = "get_element" -> case_get_element(args, result)
      [] name = "get_element_tree" -> case_get_element_tree(args, result)
      [] name = "delete_element" -> case_delete_element(args, result)
      [] name = "search_elements" -> case_search_elements(args, result)
      [] name = "html_to_elements" -> case_html_to_elements(args, result)
      [] name = "list_globals" -> case_list_globals(args, result)
      [] name = "get_global" -> case_get_global(args, result)
      [] name = "install_global" -> case_install_global(args, result)
      [] name = "search_global_methods" -> case_search_global_methods(args, result)
      [] name = "list_modules" -> case_list_modules(args, result)
      [] name = "get_module" -> case_get_module(args, result)
      [] name = "create_module" -> case_create_module(args, result)
      [] name = "add_file_to_module" -> case_add_file_to_module(args, result)
      [] name = "install_module" -> case_install_module(args, result)
      [] name = "get_statement" -> case_get_statement(args, result)
      [] name = "create_statement" -> case_create_statement(args, result)
      [] name = "add_statement_code" -> case_add_statement_code(args, result)
      [] name = "save_file" -> case_save_file(args, result)
      [] name = "get_file" -> case_get_file(args, result)
      [] name = "get_directory" -> case_get_directory(args, result)
      [] name = "create_directory" -> case_create_directory(args, result)

NoEnvelope == [text |-> Undef, isError |-> FALSE]

\* return { content: [{ type: 'text', text: JSON.stringify(body, null, 2) }] }
SuccessEnvelope(body) == [text |-> Stringify(body), isError |-> FALSE]

\* Variant of CatchBlock that puts error.toString() into the error field.
CatchBlock_ErrorToString(error) ==
    [text |-> Stringify(Obj([success |-> Bool(FALSE),
                             error |-> Text(ErrorToString(error)),
                             details |-> OrElse(OptMember(Ok(error.response), "data"),
                                                Ok(Text(ErrorToString(error)))).v])),
     isError |-> TRUE]

\* Variant of CatchBlock whose details field is error.response?.data alone.
CatchBlock_DetailsFromResponse(error) ==
    [text |-> Stringify(Obj([success |-> Bool(FALSE),
                             error |-> Text(error.message),
                             details |-> OptMember(Ok(error.response), "data").v])),
     isError |-> TRUE]

\* The catch block of the handler.
CatchBlock(error) ==
    [text |-> Stringify(Obj([success |-> Bool(FALSE),
                             error |-> Text(error.message),
                             details |-> OrElse(OptMember(Ok(error.response), "data"),
                                                Ok(Text(ErrorToString(error)))).v])),
     isError |-> TRUE]

\* Variant of CallToolStart without the check of the argument bag.
CallToolStart_ArgsUnchecked(name, args) ==
    IF name \notin CaseNames
    THEN [st |-> "done", fault |-> NoError,
          envelope |-> CatchBlock(Error(<<"Unknown tool: ", name>>)), req |-> NoRequest]
    ELSE LET sent == ClientCall(name, args) IN
         IF sent.threw
         THEN [st |-> "done", fault |-> NoError,
               envelope |-> CatchBlock(sent.error), req |-> NoRequest]
         ELSE [st |-> "await", fault |-> NoError, envelope |-> NoEnvelope, req |-> sent.req]


\* Variant of CallToolStart whose default case throws out of the handler.
CallToolStart_DefaultUncaught(name, args) ==
    IF ~Truthy(args)
    THEN [st |-> "fault", fault |-> Error(<<"Arguments are required">>),
          envelope |-> NoEnvelope, req |-> NoRequest]
    ELSE IF name \notin CaseNames
    THEN [st |-> "fault", fault |-> Error(<<"Unknown tool: ", name>>),
          envelope |-> NoEnvelope, req |-> NoRequest]
    ELSE LET sent == ClientCall(name, args) IN
         IF sent.threw
         THEN [st |-> "done", fault |-> NoError,
               envelope |-> CatchBlock(sent.error), req |-> NoRequest]
         ELSE [st |-> "await", fault |-> NoError, envelope |-> NoEnvelope, req |-> sent.req]

\* The handler from its entry to its first await. It throws out of the
\* handler ("fault"), returns an envelope ("done") or suspends on the
\* request it has sent ("await").
CallToolStart(name, args) ==
    IF ~Truthy(args)
    THEN [st |-> "fault", fault |-> Error(<<"Arguments are required">>),
          envelope |-> NoEnvelope, req |-> NoRequest]
    ELSE IF name \notin CaseNames
    THEN [st |-> "done", fault |-> NoError,
          envelope |-> CatchBlock(Error(<<"Unknown tool: ", name>>)), req |-> NoRequest]
    ELSE LET sent == ClientCall(name, args) IN
         IF sent.threw
         THEN [st |-> "done", fault |-> NoError,
               envelope |-> CatchBlock(sent.error), req |-> NoRequest]
         ELSE [st |-> "await", fault |-> NoError, envelope |-> NoEnvelope, req |-> sent.req]

\* The handler from the settling of its awaited call to its return.
CallToolResume(name, args, resp) ==
    LET result == ClientReturn(resp) IN
    IF result.threw THEN CatchBlock(result.error)
    ELSE LET body == CaseBody(name, args, result.v) IN
         IF body.threw THEN CatchBlock(body.error) ELSE SuccessEnvelope(body.v)

\* Variant of ListToolsResult that leaves the last descriptor out.
ListToolsResult_DropsLast == [tools |-> SubSeq(tools, 1, Len(tools) - 1)]

\* The tools/list handler.
ListToolsResult == [tools |-> tools]

----------------------------------------------------------------------------
\* Inputs: tool names, argument bags and remote responses

UnknownNames == {"run_code", "no_such_tool"}

Names == ToolNames \cup UnknownNames

\* An object that cannot be converted to a string.
Hostile == Obj([f \in {"toString"} |-> Num(1)])

SampleValue(field) ==
    CASE field = "name" -> Str("Widget")
      [] field = "uuid" -> Str("uuid-1")
      [] field = "path" -> Str("/widgets")
      [] field = "data" -> Obj([f \in {"text"} |-> Str("Hello")])
      [] OTHER -> Str(field)

Descriptor(name) == tools[CHOOSE i \in 1..Len(tools) : tools[i].name = name]

RequiredFields(name) ==
    LET required == Descriptor(name).required IN
    {required[i] : i \in 1..Len(required)}

EmptyBag == Obj(NoFields)

\* The bag with exactly the required fields of the tool's inputSchema.
MinimalBag(name) == Obj([f \in RequiredFields(name) |-> SampleValue(f)])

\* The required fields present, each wrongly typed.
HostileBag(name) == Obj([f \in RequiredFields(name) |-> Hostile])

\* request.params.arguments: absent, or an object.
Bags(name) ==
    IF name \in ToolNames
    THEN {Undef, EmptyBag, MinimalBag(name), HostileBag(name)}
    ELSE {Undef, EmptyBag}

WrappedBody ==
    Obj([f \in {"data"} |->
           Obj([uuid |-> Str("abc-123"), name |-> Str("Widget"), path |-> Str("/widgets")])])

FlatBody ==
    Obj([uuid |-> Str("def-456"), name |-> Str("Gadget"), deleted_count |-> Num(2),
         existing |-> Bool(TRUE)])

ListBody == Obj([data |-> Arr(2), pagination |-> Obj([f \in {"total"} |-> Num(2)])])

HostileBody ==
    Obj([data |-> Obj([f \in {"uuid", "name", "path", "length", "file_name", "module_name",
                              "methods_copied", "statements_copied", "files_installed",
                              "order"} |-> Hostile]),
         deleted_count |-> Hostile])

\* A body whose data field has no uuid while the body itself has one.
MixedBody ==
    Obj([data |-> Obj([f \in {"name"} |-> Str("Widget")]), uuid |-> Str("top-789")])

Bodies == {Null, EmptyBag, WrappedBody, FlatBody, ListBody, HostileBody, MixedBody}

Responses ==
    {Response(200, b) : b \in Bodies}
        \cup {Response(404, Obj([f \in {"message"} |-> Str("Not found")])),
              Response(500, Str("")),
              NetworkFailure}

----------------------------------------------------------------------------
\* State

Slots == 1..MaxInFlight

NoInvocation ==
    [st |-> "none", name |-> "", args |-> Undef, requests |-> 0, req |-> NoRequest,
     resp |-> NoResponse, envelopes |-> 0, envelope |-> NoEnvelope, fault |-> NoError]

Idle == [st |-> "idle", name |-> "", args |-> Undef, requests |-> 0, req |-> NoRequest]

NoList == [tools |-> <<>>]

Failed(inv) ==
    inv.st = "fault" \/ (inv.st = "done" /\ Get(inv.envelope.text, "success") = Bool(FALSE))

\* What prev keeps of a request that the next one does not repeat: how it
\* ended ("unknown": the envelope of the switch's default case).
Summary(inv) ==
    [NoInvocation EXCEPT !.st = IF inv.st = "done" /\ inv.requests = 0 /\ inv.name \notin CaseNames
                                THEN "unknown"
                                ELSE IF Failed(inv) THEN "failed" ELSE inv.st]

DefaultApiUrl == "https://stellisoft.com/api/v1"

\* Variant of API_URL without the default.
API_URL_NoDefault == env.url

\* const API_URL = process.env.STELLIFY_API_URL || '...'
API_URL == OrElse(Ok(env.url), Lit(DefaultApiUrl)).v

\* const API_TOKEN = process.env.STELLIFY_API_TOKEN
API_TOKEN == env.token

Init ==
    /\ env \in [token : {Undef, Str(""), Str("secret-token")},
                url : {Undef, Str(""), Str("http://localhost:8000/api/v1")}]
    /\ pc = "check_token"
    /\ exitCode = -1
    /\ stderr = <<>>
    /\ stellify = NoClient
    /\ handlers = {}
    /\ call = [s \in Slots |-> Idle]
    /\ last = NoInvocation
    /\ prev = NoInvocation
    /\ listed = NoList
    /\ failures = 0

----------------------------------------------------------------------------
\* Bootstrap: the top-level statements of index.ts

\* Variant of CheckToken that writes the diagnostic and goes on.
CheckToken_LogsOnly ==
    /\ pc = "check_token"
    /\ IF ~Truthy(API_TOKEN)
       THEN /\ stderr' = Append(stderr, "Error: STELLIFY_API_TOKEN environment variable is required")
            /\ pc' = "new_client"
            /\ UNCHANGED exitCode
       ELSE /\ pc' = "new_client"
            /\ UNCHANGED <<stderr, exitCode>>
    /\ UNCHANGED <<env, stellify, handlers, call, last, prev, listed, failures>>

\* if (!API_TOKEN) { console.error(...); process.exit(1); }
CheckToken ==
    /\ pc = "check_token"
    /\ IF ~Truthy(API_TOKEN)
       THEN /\ stderr' = Append(stderr, "Error: STELLIFY_API_TOKEN environment variable is required")
            /\ exitCode' = 1
            /\ pc' = "exited"
       ELSE /\ pc' = "new_client"
            /\ UNCHANGED <<stderr, exitCode>>
    /\ UNCHANGED <<env, stellify, handlers, call, last, prev, listed, failures>>

\* Variant of NewClient that leaves the construction of the client for later.
NewClient_Deferred ==
    /\ pc = "new_client"
    /\ pc' = "set_list_handler"
    /\ UNCHANGED <<env, exitCode, stderr, stellify, handlers, call, last, prev, listed, failures>>


\* const stellify = new StellifyClient({ apiUrl: API_URL, apiToken: API_TOKEN })
NewClient ==
    /\ pc = "new_client"
    /\ stellify' = StellifyClient([apiUrl |-> API_URL, apiToken |-> API_TOKEN])
    /\ pc' = "set_list_handler"
    /\ UNCHANGED <<env, exitCode, stderr, handlers, call, last, prev, listed, failures>>

\* server.setRequestHandler(ListToolsRequestSchema, ...)
SetListToolsHandler ==
    /\ pc = "set_list_handler"
    /\ handlers' = handlers \cup {"tools/list"}
    /\ pc' = "set_call_handler"
    /\ UNCHANGED <<env, exitCode, stderr, stellify, call, last, prev, listed, failures>>

\* server.setRequestHandler(CallToolRequestSchema, ...)
SetCallToolHandler ==
    /\ pc = "set_call_handler"
    /\ handlers' = handlers \cup {"tools/call"}
    /\ pc' = "main"
    /\ UNCHANGED <<env, exitCode, stderr, stellify, call, last, prev, listed, failures>>

\* main(): await server.connect(transport) resolves.
Connect ==
    /\ pc = "main"
    /\ stderr' = Append(stderr, "Stellify MCP server running on stdio")
    /\ pc' = "serving"
    /\ UNCHANGED <<env, exitCode, stellify, handlers, call, last, prev, listed, failures>>

\* main().catch(...): server.connect rejects.
ConnectFailed ==
    /\ pc = "main"
    /\ stderr' = Append(stderr, "Server error:")
    /\ exitCode' = 1
    /\ pc' = "exited"
    /\ UNCHANGED <<env, stellify, handlers, call, last, prev, listed, failures>>

----------------------------------------------------------------------------
\* Serving requests

\* The record of a handler run that ended with outcome out.
Finished(name, args, requests, req, resp, out) ==
    [st |-> out.st, name |-> name, args |-> args,
     requests |-> requests, req |-> req, resp |-> resp,
     envelopes |-> IF out.st = "done" THEN 1 ELSE 0, envelope |-> out.envelope,
     fault |-> out.fault]

CountFailure(inv) ==
    IF Failed(inv) /\ failures < MaxFailures THEN failures + 1 ELSE failures

\* The client has read the answer to its last request.
Forget ==
    /\ last.st # "none"
    /\ prev' = Summary(last)
    /\ last' = NoInvocation
    /\ listed' = NoList
    /\ UNCHANGED <<env, pc, exitCode, stderr, stellify, handlers, call, failures>>

\* A tools/list request is answered by its handler.
ListTools ==
    /\ pc = "serving"
    /\ "tools/list" \in handlers
    /\ last.st = "none"
    /\ listed' = ListToolsResult
    /\ last' = [NoInvocation EXCEPT !.st = "listed"]
    /\ UNCHANGED <<env, pc, exitCode, stderr, stellify, handlers, call, prev, failures>>

\* Variant of Receive that answers a repeated creation from the earlier answer.
Receive_Deduplicating(s, name, args) ==
    /\ pc = "serving"
    /\ "tools/call" \in handlers
    /\ call[s].st = "idle"
    /\ last.st = "none" \/ (last.st \in {"done", "fault"} /\ last.name = name /\ last.args = args)
    /\ prev' = IF last.st = "none" THEN prev ELSE last
    /\ LET out == CallToolStart(name, args) IN
       IF last.st = "done" /\ last.requests = 1 /\ Is2xx(last.resp)
       THEN /\ last' = [last EXCEPT !.requests = 0, !.req = NoRequest]
            /\ UNCHANGED <<call, failures>>
       ELSE IF out.st = "await"
       THEN /\ call' = [call EXCEPT ![s] = [st |-> "await", name |-> name, args |-> args,
                                            requests |-> 1, req |-> out.req]]
            /\ last' = NoInvocation
            /\ UNCHANGED failures
       ELSE /\ last' = Finished(name, args, 0, NoRequest, NoResponse, out)
            /\ failures' = CountFailure(last')
            /\ UNCHANGED call
    /\ UNCHANGED <<env, pc, exitCode, stderr, stellify, handlers, listed>>

\* A tools/call request arrives in slot s and its handler runs to its first
\* await, or to its end when it does not reach one. The request is a new
\* one, or the one answered last sent again.
Receive(s, name, args) ==
    /\ pc = "serving"
    /\ "tools/call" \in handlers
    /\ call[s].st = "idle"
    /\ last.st = "none" \/ (last.st \in {"done", "fault"} /\ last.name = name /\ last.args = args)
    /\ prev' = IF last.st = "none" THEN prev ELSE last
    /\ LET out == CallToolStart(name, args) IN
       IF out.st = "await"
       THEN /\ call' = [call EXCEPT ![s] = [st |-> "await", name |-> name, args |-> args,
                                            requests |-> 1, req |-> out.req]]
            /\ last' = NoInvocation
            /\ UNCHANGED failures
       ELSE /\ last' = Finished(name, args, 0, NoRequest, NoResponse, out)
            /\ failures' = CountFailure(last')
            /\ UNCHANGED call
    /\ UNCHANGED <<env, pc, exitCode, stderr, stellify, handlers, listed>>

\* Variant of Respond that sends a failed request once more.
Respond_Retrying(s, resp) ==
    /\ call[s].st = "await"
    /\ IF ClientReturn(resp).threw /\ call[s].requests < 2
       THEN /\ call' = [call EXCEPT ![s].requests = 2]
            /\ UNCHANGED <<last, failures>>
       ELSE /\ LET inv == call[s]
                   out == [st |-> "done", fault |-> NoError,
                           envelope |-> CallToolResume(inv.name, inv.args, resp)] IN
               /\ last' = Finished(inv.name, inv.args, inv.requests, inv.req, resp, out)
               /\ failures' = CountFailure(last')
            /\ call' = [call EXCEPT ![s] = Idle]
    /\ UNCHANGED <<env, pc, exitCode, stderr, stellify, handlers, prev, listed>>

\* Variant of Respond in which a failed call ends the process.
Respond_ExitOnError(s, resp) ==
    /\ call[s].st = "await"
    /\ LET inv == call[s]
           out == [st |-> "done", fault |-> NoError,
                   envelope |-> CallToolResume(inv.name, inv.args, resp)] IN
       /\ last' = Finished(inv.name, inv.args, inv.requests, inv.req, resp, out)
       /\ failures' = CountFailure(last')
       /\ pc' = IF Failed(last') THEN "exited" ELSE pc
       /\ exitCode' = IF Failed(last') THEN 1 ELSE exitCode
    /\ call' = [call EXCEPT ![s] = Idle]
    /\ UNCHANGED <<env, stderr, stellify, handlers, prev, listed>>

\* Variant of Respond that keeps the request being handled in one place
\* shared by all runs: the run that started first decides name and bag.
Respond_SharedRequest(s, resp) ==
    /\ call[s].st = "await"
    /\ LET inv == call[s]
           cur == call[CHOOSE t \in Slots : call[t].st = "await" /\
                                            \A u \in Slots : call[u].st = "await" => t <= u]
           out == [st |-> "done", fault |-> NoError,
                   envelope |-> CallToolResume(cur.name, cur.args, resp)] IN
       /\ last' = Finished(inv.name, inv.args, inv.requests, inv.req, resp, out)
       /\ failures' = CountFailure(last')
    /\ call' = [call EXCEPT ![s] = Idle]
    /\ UNCHANGED <<env, pc, exitCode, stderr, stellify, handlers, prev, listed>>

\* The request sent from slot s settles with resp and the handler runs to
\* its return.
Respond(s, resp) ==
    /\ call[s].st = "await"
    /\ LET inv == call[s]
           out == [st |-> "done", fault |-> NoError,
                   envelope |-> CallToolResume(inv.name, inv.args, resp)] IN
       /\ last' = Finished(inv.name, inv.args, inv.requests, inv.req, resp, out)
       /\ failures' = CountFailure(last')
    /\ call' = [call EXCEPT ![s] = Idle]
    /\ UNCHANGED <<env, pc, exitCode, stderr, stellify, handlers, prev, listed>>

\* One client that waits for each answer before it sends the next request.
Next ==
    \/ CheckToken
    \/ NewClient
    \/ SetListToolsHandler
    \/ SetCallToolHandler
    \/ Connect
    \/ ConnectFailed
    \/ Forget
    \/ (\A s \in Slots : call[s].st = "idle") /\ ListTools
    \/ \E name \in Names : \E args \in Bags(name) :
          (\A s \in Slots : call[s].st = "idle") /\ Receive(1, name, args)
    \/ \E s \in Slots : \E resp \in Responses : Respond(s, resp)

Spec == Init /\ [][Next]_vars

\* Several clients, or one that does not wait: a request arrives while the
\* handlers of earlier ones are suspended, and the awaited calls settle in
\* any order.
ConcNames == {"create_file", "get_file", "search_elements"}

ConcBags(name) == {MinimalBag(name), HostileBag(name)}

ConcResponses ==
    {Response(200, WrappedBody), Response(200, FlatBody), Response(500, Str("")), NetworkFailure}

NextConc ==
    \/ CheckToken
    \/ NewClient
    \/ SetListToolsHandler
    \/ SetCallToolHandler
    \/ Connect
    \/ ConnectFailed
    \/ Forget
    \/ \E s \in Slots : \E name \in ConcNames : \E args \in ConcBags(name) :
          Receive(s, name, args)
    \/ \E s \in Slots : \E resp \in ConcResponses : Respond(s, resp)

SpecConc == Init /\ [][NextConc]_vars

\* The client used on its own, as the test scripts use it: a script
\* constructs the client and calls its methods one after the other, each
\* with the arguments its signature declares, taken from the bag a.
MethodCall(method, a) ==
    CASE method = "createFile" -> createFile(a)
      [] method = "createMethod" -> createMethod(a)
      [] method = "addMethodBody" -> addMethodBody(a)
      [] method = "addStatementCode" -> addStatementCode(a)
      [] method = "searchMethods" -> searchMethods(a)
      [] method = "searchFiles" -> searchFiles(a)
      [] method = "getFile" -> getFile(Get(a, "uuid"))
      [] method = "saveFile" -> saveFile(Get(a, "uuid"), Get(a, "data"))
      [] method = "getMethod" -> getMethod(Get(a, "uuid"))
      [] method = "saveMethod" -> saveMethod(Get(a, "uuid"), Get(a, "data"))
      [] method = "createStatement" -> createStatement(a)
      [] method = "getStatement" -> getStatement(Get(a, "uuid"))
      [] method = "saveStatement" -> saveStatement(Get(a, "uuid"), Get(a, "data"))
      [] method = "createRoute" -> createRoute(a)
      [] method = "getRoute" -> getRoute(Get(a, "uuid"))
      [] method = "searchRoutes" -> searchRoutes(a)
      [] method = "createElement" -> createElement(a)
      [] method = "updateElement" -> updateElement(Get(a, "uuid"), Get(a, "data"))
      [] method = "getElement" -> getElement(Get(a, "uuid"))
      [] method = "getElementTree" -> getElementTree(Get(a, "uuid"))
      [] method = "deleteElement" ->
            deleteElement(Get(a, "uuid"), Get(a, "page"), Get(a, "current"))
      [] method = "searchElements" -> searchElements(a)
      [] method = "htmlToElements" -> htmlToElements(a)
      [] method = "listGlobals" -> listGlobals
      [] method = "getGlobal" -> getGlobal(Get(a, "uuid"))
      [] method = "installGlobal" -> installGlobal(a)
      [] method = "searchGlobalMethods" -> searchGlobalMethods(a)
      [] method = "listModules" -> listModules
      [] method = "getModule" -> getModule(Get(a, "uuid"))
      [] method = "createModule" -> createModule(a)
      [] method = "addFileToModule" -> addFileToModule(a)
      [] method = "removeFileFromModule" ->
            removeFileFromModule(Get(a, "moduleUuid"), Get(a, "fileUuid"))
      [] method = "installModule" -> installModule(a)
      [] method = "deleteModule" -> deleteModule(Get(a, "uuid"))
      [] method = "getDirectory" -> getDirectory(Get(a, "uuid"))
      [] method = "createDirectory" -> createDirectory(a)
      [] method = "saveDirectory" -> saveDirectory(Get(a, "uuid"), Get(a, "data"))
      [] method = "getProject" -> getProject

MethodNames ==
    {"createFile", "createMethod", "addMethodBody", "addStatementCode", "searchMethods",
     "searchFiles", "getFile", "saveFile", "getMethod", "saveMethod", "createStatement",
     "getStatement", "saveStatement", "createRoute", "getRoute", "searchRoutes",
     "createElement", "updateElement", "getElement", "getElementTree", "deleteElement",
     "searchElements", "htmlToElements", "listGlobals", "getGlobal", "installGlobal",
     "searchGlobalMethods", "listModules", "getModule", "createModule", "addFileToModule",
     "removeFileFromModule", "installModule", "deleteModule", "getDirectory",
     "createDirectory", "saveDirectory", "getProject"}

\* Arguments of the declared types: strings and plain objects, or none.
TypedArgs ==
    {EmptyBag,
     Obj([f \in {"uuid", "name", "data", "page", "moduleUuid", "fileUuid", "query"} |->
            SampleValue(f)])}

\* The record of a method call that has ended.
Returned(inv, resp, r) ==
    [st |-> IF r.threw THEN "threw" ELSE "returned", name |-> inv.name, args |-> inv.args,
     requests |-> inv.requests, req |-> inv.req, resp |-> resp, result |-> r.v,
     fault |-> r.error]

\* The script calls a method: it runs to its await, or throws before it.
CallMethod(s, method, a) ==
    /\ pc = "set_list_handler"
    /\ stellify # NoClient
    /\ call[s].st = "idle"
    /\ last.st = "none"
    /\ LET sent == MethodCall(method, a)
           inv == [st |-> "await", name |-> method, args |-> a,
                   requests |-> IF sent.threw THEN 0 ELSE 1, req |-> sent.req] IN
       IF sent.threw
       THEN /\ last' = Returned(inv, NoResponse, Throw(sent.error))
            /\ UNCHANGED call
       ELSE /\ call' = [call EXCEPT ![s] = inv]
            /\ UNCHANGED last
    /\ UNCHANGED <<env, pc, exitCode, stderr, stellify, handlers, prev, listed, failures>>

\* The request of the method settles and the method returns or throws.
MethodReturns(s, resp) ==
    /\ pc = "set_list_handler"
    /\ call[s].st = "await"
    /\ last' = Returned(call[s], resp, ClientReturn(resp))
    /\ call' = [call EXCEPT ![s] = Idle]
    /\ UNCHANGED <<env, pc, exitCode, stderr, stellify, handlers, prev, listed, failures>>

NextClient ==
    \/ CheckToken
    \/ NewClient
    \/ Forget
    \/ \E method \in MethodNames : \E a \in TypedArgs : CallMethod(1, method, a)
    \/ \E s \in Slots : \E resp \in Responses : MethodReturns(s, resp)

SpecClient == Init /\ [][NextClient]_vars

\* The README: for each tool it documents, the parameters it marks
\* "(required)".
ReadmeRequired ==
    [get_project |-> {}, get_directory |-> {"uuid"}, create_directory |-> {"name"},
     create_file |-> {"directory", "name", "type"}, get_file |-> {"uuid"},
     save_file |-> {"uuid", "name", "type"}, search_files |-> {},
     create_method |-> {"file", "name"},
     add_method_body |-> {"file_uuid", "method_uuid", "code"}, search_methods |-> {},
     create_statement |-> {},
     add_statement_code |-> {"file_uuid", "statement_uuid", "code"},
     get_statement |-> {"uuid"},
     create_route |-> {"project_id", "name", "path", "method"}, get_route |-> {"uuid"},
     search_routes |-> {}, create_element |-> {"type"},
     update_element |-> {"uuid", "data"}, get_element |-> {"uuid"},
     get_element_tree |-> {"uuid"}, delete_element |-> {"uuid"}, search_elements |-> {},
     html_to_elements |-> {"elements"}, list_globals |-> {}, get_global |-> {"uuid"},
     install_global |-> {"file_uuid", "directory_uuid"},
     search_global_methods |-> {"query"}, list_modules |-> {}, get_module |-> {"uuid"},
     create_module |-> {"name"}, add_file_to_module |-> {"module_uuid", "file_uuid"},
     install_module |-> {"module_uuid", "directory_uuid"}]

\* The later version of the server, which has the tool run_code: the
\* handler has the same argument check, try and catch, the client the
\* method runCode.

\* Variant of runCode without the check of file and method.
runCode_Unchecked(params) ==
    LET file == Get(params, "file")
        method == Get(params, "method")
        body == Rest(params, {"file", "method"}) IN
    put(Template(<<Lit("/code/"), Ok(file), Lit("/"), Ok(method)>>), body)

\* runCode(params): const { file, method, ...body } = params; throws when
\* file or method is falsy, else PUT /code/{file}/{method} with body.
runCode(params) ==
    LET file == Get(params, "file")
        method == Get(params, "method")
        body == Rest(params, {"file", "method"}) IN
    IF ~Truthy(file) \/ ~Truthy(method)
    THEN [threw |-> TRUE,
          error |-> Error(<<"Both file and method UUIDs are required to run code">>),
          req |-> NoRequest]
    ELSE put(Template(<<Lit("/code/"), Ok(file), Lit("/"), Ok(method)>>), body)

\* case 'run_code'
case_run_code(args, result) ==
    LET A == Ok(args)
        R == Ok(result)
        benchmarkInfo ==
            Cond(Member(A, "benchmark"),
                 Template(<<Lit(" ("), OrElse(Member(R, "execution_time"), Lit("N/A")),
                            Lit("ms, "), OrElse(Member(R, "memory_usage"), Lit("N/A")),
                            Lit(")")>>),
                 Lit(""))
        success == Member(R, "success")
        notFalse == IF success.threw THEN success ELSE Ok(Bool(success.v # Bool(FALSE))) IN
    IF benchmarkInfo.threw THEN benchmarkInfo
    ELSE ObjectLiteral(<<
        <<"success", notFalse>>,
        <<"message", Cond(notFalse,
                          Template(<<Lit("Code executed successfully"), benchmarkInfo>>),
                          Template(<<Lit("Execution failed: "),
                                     OrElse(Member(R, "error"), Lit("Unknown error"))>>))>>,
        <<"output", Member(R, "output")>>,
        <<"error", Member(R, "error")>>,
        <<"execution_time", Member(R, "execution_time")>>,
        <<"memory_usage", Member(R, "memory_usage")>> >>)

\* The handler called with the name run_code, from its entry to its first
\* await.
RunCodeStart(args) ==
    IF ~Truthy(args)
    THEN [st |-> "fault", fault |-> Error(<<"Arguments are required">>),
          envelope |-> NoEnvelope, req |-> NoRequest]
    ELSE LET sent == runCode(args) IN
         IF sent.threw
         THEN [st |-> "done", fault |-> NoError,
               envelope |-> CatchBlock(sent.error), req |-> NoRequest]
         ELSE [st |-> "await", fault |-> NoError, envelope |-> NoEnvelope, req |-> sent.req]

\* The same run from the settling of runCode's request to its return.
RunCodeResume(args, resp) ==
    LET result == ClientReturn(resp) IN
    IF result.threw THEN CatchBlock(result.error)
    ELSE LET body == case_run_code(args, result.v) IN
         IF body.threw THEN CatchBlock(body.error) ELSE SuccessEnvelope(body.v)

\* A tools/call request for run_code arrives.
ReceiveRunCode(s, args) ==
    /\ pc = "serving"
    /\ "tools/call" \in handlers
    /\ call[s].st = "idle"
    /\ last.st = "none"
    /\ LET out == RunCodeStart(args) IN
       IF out.st = "await"
       THEN /\ call' = [call EXCEPT ![s] = [st |-> "await", name |-> "run_code",
                                            args |-> args, requests |-> 1, req |-> out.req]]
            /\ UNCHANGED <<last, failures>>
       ELSE /\ last' = Finished("run_code", args, 0, NoRequest, NoResponse, out)
            /\ failures' = CountFailure(last')
            /\ UNCHANGED call
    /\ UNCHANGED <<env, pc, exitCode, stderr, stellify, handlers, prev, listed>>

\* The request of runCode settles and the handler runs to its return.
RespondRunCode(s, resp) ==
    /\ call[s].st = "await"
    /\ LET inv == call[s]
           out == [st |-> "done", fault |-> NoError,
                   envelope |-> RunCodeResume(inv.args, resp)] IN
       /\ last' = Finished(inv.name, inv.args, inv.requests, inv.req, resp, out)
       /\ failures' = CountFailure(last')
    /\ call' = [call EXCEPT ![s] = Idle]
    /\ UNCHANGED <<env, pc, exitCode, stderr, stellify, handlers, prev, listed>>

NextRun ==
    \/ CheckToken
    \/ NewClient
    \/ SetListToolsHandler
    \/ SetCallToolHandler
    \/ Connect
    \/ ConnectFailed
    \/ Forget
    \/ \E args \in {Undef, EmptyBag,
                    Obj([f \in {"file"} |-> Str("file-1")]),
                    Obj([file |-> Str(""), method |-> Str("method-1")]),
                    Obj([file |-> Str("file-1"), method |-> Str("method-1")]),
                    Obj([file |-> Str("file-1"), method |-> Hostile]),
                    Obj([file |-> Str("file-1"), method |-> Str("method-1"),
                         timeout |-> Num(30), benchmark |-> Bool(TRUE)])} :
          ReceiveRunCode(1, args)
    \/ \E s \in Slots :
          \E resp \in {Response(200, Obj([success |-> Bool(TRUE), output |-> Str("42"),
                                          execution_time |-> Num(5)])),
                       Response(200, Obj([success |-> Bool(FALSE), error |-> Str("boom")])),
                       Response(200, EmptyBag), Response(200, Null),
                       Response(500, Obj([f \in {"message"} |-> Str("Server Error")])),
                       NetworkFailure} :
             RespondRunCode(s, resp)

SpecRun == Init /\ [][NextRun]_vars

----------------------------------------------------------------------------
\* Properties

\* A tools/call handler run has ended and its record is still held.
Ended(inv) == inv.st \in {"done", "fault"}

\* The success field of the JSON text of an envelope.
SuccessOf(inv) == Get(inv.envelope.text, "success")

ErrorOf(inv) == Get(inv.envelope.text, "error")

Serving ==
    /\ pc = "serving"
    /\ exitCode = -1
    /\ handlers = {"tools/list", "tools/call"}
    /\ stellify = StellifyClient([apiUrl |-> API_URL, apiToken |-> API_TOKEN])

\* C1: every tools/call request, whatever its name and whether or not it
\* carries an argument bag, is answered with exactly one result envelope.
C1_ExactlyOneEnvelope == Ended(last) => last.envelopes = 1

\* C2: a tools/call request without an argument bag ends in a failure
\* envelope (success=false in the text, on the channel a success uses) and
\* not in an error thrown out of the handler, and the server keeps serving.
C2_AbsentBagIsAFailureEnvelope ==
    (Ended(last) /\ ~Truthy(last.args)) =>
        /\ last.st = "done"
        /\ last.envelopes = 1
        /\ SuccessOf(last) = Bool(FALSE)
        /\ Serving

\* C3: a call with an argument bag to a name outside the catalogue ends in
\* one envelope with success=false and the error "Unknown tool: <name>",
\* and after such a call the server still serves: a valid call that the
\* remote API accepts is answered with success=true from one request.
C3_UnknownTool ==
    /\ (Ended(last) /\ last.name \notin ToolNames /\ Truthy(last.args)) =>
          /\ last.st = "done"
          /\ last.envelopes = 1
          /\ last.requests = 0
          /\ SuccessOf(last) = Bool(FALSE)
          /\ ErrorOf(last) = Text(<<"Unknown tool: ", last.name>>)
          /\ last.envelope.isError
          /\ Serving
    /\ prev.st = "unknown" =>
          /\ Serving
          /\ (/\ last.st = "done"
              /\ last.name \in ToolNames
              /\ last.args = MinimalBag(last.name)
              /\ last.resp = Response(200, ListBody)) =>
                 /\ last.requests = 1
                 /\ last.envelopes = 1
                 /\ SuccessOf(last) = Bool(TRUE)
                 /\ ~last.envelope.isError

C3_Witness ==
    /\ prev.st = "unknown"
    /\ last.st = "done"
    /\ last.name = "create_file"
    /\ last.args = MinimalBag("create_file")
    /\ SuccessOf(last) = Bool(TRUE)

\* No object of the value carries an own toString property.
RECURSIVE Plain(_)
Plain(v) == Printable(v) /\ \A f \in DOMAIN v.o : Plain(v.o[f])

\* The cases that hand the client's return value on without reading it.
PassThroughTools ==
    {"save_method", "add_method_body", "search_methods", "search_files", "create_element",
     "update_element", "get_element", "get_element_tree", "get_global",
     "add_statement_code", "save_file", "get_file"}

\* The body of a 2xx response is one the case of the tool can read.
Readable(name, body) ==
    /\ ~Nullish(body)
    /\ Plain(body)
    /\ name = "search_elements" => ~Nullish(Get(body, "data"))

MinimalCallAnswered2xx ==
    /\ last.st = "done"
    /\ last.name \in ToolNames
    /\ last.args = MinimalBag(last.name)
    /\ Is2xx(last.resp)

\* C4 as stated: every catalogue tool called with the required fields only
\* yields one envelope with success=true on a 2xx response, whatever the
\* body of that response.
C4_SuccessWhateverTheBody ==
    MinimalCallAnswered2xx => (last.envelopes = 1 /\ SuccessOf(last) = Bool(TRUE))

\* C4, amended: every catalogue tool called with the required fields only
\* yields one envelope on a 2xx response; the envelope has success=true when
\* the case passes the body on unread, or when the body is not null, holds
\* no object with an own toString property and, for search_elements, has a
\* data field that is neither null nor undefined.
C4_SuccessOnReadableBody ==
    MinimalCallAnswered2xx =>
        /\ last.envelopes = 1
        /\ last.requests = 1
        /\ (last.name \in PassThroughTools \/ Readable(last.name, last.resp.data)) =>
              (SuccessOf(last) = Bool(TRUE) /\ ~last.envelope.isError)

C4_Witness ==
    /\ MinimalCallAnswered2xx
    /\ last.name = "search_elements"
    /\ last.resp = Response(200, ListBody)
    /\ SuccessOf(last) = Bool(TRUE)

\* The message of the error axios rejects with.
RejectionMessage(resp) ==
    IF resp.kind = "network" THEN <<"Network Error">>
    ELSE <<"Request failed with status code ", ToString(resp.status)>>

RemoteCallFailed ==
    /\ last.st = "done"
    /\ last.requests = 1
    /\ ~Is2xx(last.resp)

\* C5: when the remote call of a handler fails (a response outside 2xx, or
\* no response) the envelope has success=false and its error field is the
\* message of the thrown error, unchanged.
C5_RemoteFailureKeepsMessage ==
    RemoteCallFailed =>
        /\ last.envelopes = 1
        /\ SuccessOf(last) = Bool(FALSE)
        /\ ErrorOf(last) = Text(RejectionMessage(last.resp))
        /\ last.envelope.isError

C5_Witness ==
    /\ RemoteCallFailed
    /\ last.name = "create_file"
    /\ last.resp.status = 404
    /\ ErrorOf(last) = Text(<<"Request failed with status code ", "404">>)

\* The tools whose client method puts the uuid argument into the request path.
PathTools ==
    {"save_method", "get_route", "update_element", "get_element", "get_element_tree",
     "delete_element", "get_global", "get_module", "get_statement", "save_file",
     "get_file", "get_directory"}

CatalogueCallWithBag ==
    /\ Ended(last)
    /\ last.name \in ToolNames
    /\ Truthy(last.args)

CreationTools ==
    {"create_file", "create_method", "create_route", "create_element", "create_statement",
     "create_directory", "create_module"}

\* Where the envelope of a creation tool carries the created resource.
ResourceOf(inv) ==
    Get(inv.envelope.text,
        CASE inv.name = "create_file" -> "file"
          [] inv.name = "create_method" -> "method"
          [] inv.name = "create_route" -> "route"
          [] inv.name = "create_element" -> "element"
          [] inv.name = "create_statement" -> "statement"
          [] inv.name = "create_directory" -> "directory"
          [] inv.name = "create_module" -> "data")

\* The part of a response body that the envelope of a creation tool shows.
ShownOf(name, body) ==
    CASE name = "create_element" -> body
      [] name = "create_module" -> Get(body, "data")
      [] OTHER -> IF Truthy(Get(body, "data")) THEN Get(body, "data") ELSE body

\* The same creation tool was called twice in a row with the same bag.
CreatedTwice ==
    /\ prev.st = "done"
    /\ last.st = "done"
    /\ last.name \in CreationTools
    /\ prev.name = last.name
    /\ prev.args = last.args
    /\ Truthy(last.args)

BuiltFromOwnResponse(inv) ==
    (Is2xx(inv.resp) /\ Readable(inv.name, inv.resp.data) /\ Plain(inv.args)) =>
        /\ SuccessOf(inv) = Bool(TRUE)
        /\ ResourceOf(inv) = Stringify(ShownOf(inv.name, inv.resp.data))

\* C7: a creation tool called twice with identical arguments sends two POST
\* requests, each carrying the bag, and each call that the remote API
\* accepts is answered with a success envelope showing the resource of its
\* own response: nothing is answered from the earlier call.
C7_NoDeduplication ==
    CreatedTwice =>
        /\ prev.requests = 1
        /\ last.requests = 1
        /\ prev.req.method = "POST"
        /\ last.req.method = "POST"
        /\ prev.req.data = Stringify(prev.args)
        /\ last.req.data = Stringify(last.args)
        /\ prev.envelopes = 1
        /\ last.envelopes = 1
        /\ BuiltFromOwnResponse(prev)
        /\ BuiltFromOwnResponse(last)

C7_Witness ==
    /\ CreatedTwice
    /\ last.name = "create_file"
    /\ last.args = MinimalBag("create_file")
    /\ prev.resp = Response(200, WrappedBody)
    /\ last.resp = Response(200, FlatBody)
    /\ Get(ResourceOf(prev), "uuid") = Str("abc-123")
    /\ Get(ResourceOf(last), "uuid") = Str("def-456")

\* C8: every tools/list request is answered with the whole catalogue as
\* defined at startup, whatever calls were served or failed before it.
C8_ListIsTheCatalogue ==
    /\ last.st = "listed" => (listed.tools = tools /\ Len(listed.tools) = Len(tools))
    /\ last.st # "listed" => listed = NoList

C8_Witness ==
    /\ last.st = "listed"
    /\ prev.st \in {"failed", "unknown"}
    /\ failures >= 1
    /\ listed.tools = tools

\* C9: with STELLIFY_API_TOKEN unset the process writes a diagnostic and
\* exits with a non-zero code, and in that run no client is constructed, no
\* handler is set and no request is served.
C9_NoTokenNoService ==
    ~Truthy(env.token) =>
        /\ pc \in {"check_token", "exited"}
        /\ pc = "exited" =>
              /\ exitCode = 1
              /\ stderr = <<"Error: STELLIFY_API_TOKEN environment variable is required">>
        /\ stellify = NoClient
        /\ handlers = {}
        /\ \A s \in Slots : call[s] = Idle
        /\ last = NoInvocation
        /\ prev = NoInvocation
        /\ listed = NoList

C9_Witness ==
    /\ env.token = Undef
    /\ pc = "exited"
    /\ exitCode = 1

\* The envelope the handler returns for the inputs of inv alone.
EnvelopeFor(inv) ==
    IF inv.requests = 0 THEN CallToolStart(inv.name, inv.args).envelope
    ELSE CallToolResume(inv.name, inv.args, inv.resp)

\* C10: once invocations have failed (unknown tool, remote call throwing)
\* the process still runs and serves with the client and the handlers of
\* its startup, and the envelope of a later invocation is the one its own
\* name, bag and response determine.
C10_FailuresLeaveServerIntact ==
    failures >= 1 =>
        /\ Serving
        /\ \A s \in Slots : call[s].st = "await" =>
              /\ call[s].req.baseURL = API_URL
              /\ call[s].req = ClientCall(call[s].name, call[s].args).req
        /\ last.st = "done" => last.envelope = EnvelopeFor(last)

C10_Witness ==
    /\ failures >= 1
    /\ prev.st \in {"failed", "unknown"}
    /\ last.st = "done"
    /\ last.requests = 1
    /\ SuccessOf(last) = Bool(TRUE)

\* C11: with several invocations in flight and their responses arriving in
\* any order, the request of each is the one its own tool name and bag
\* determine and the envelope of each is the one its own name, bag and
\* response determine; a run that ends leaves the suspended ones as they
\* were.
C11_InvocationsAreIsolated ==
    /\ \A s \in Slots : call[s].st = "await" =>
          /\ call[s].requests = 1
          /\ call[s].req = ClientCall(call[s].name, call[s].args).req
    /\ last.st = "done" =>
          /\ last.envelopes = 1
          /\ last.envelope = EnvelopeFor(last)
          /\ last.requests = 1 => last.req = ClientCall(last.name, last.args).req

C11_Witness ==
    /\ call[1].st = "await"
    /\ call[1].name = "create_file"
    /\ call[1].args = MinimalBag("create_file")
    /\ call[2].st = "idle"
    /\ last.st = "done"
    /\ last.requests = 1
    /\ last.name = "get_file"
    /\ last.resp = Response(200, FlatBody)
    /\ SuccessOf(last) = Bool(TRUE)

\* The request carries the base URL and the bearer credential of startup.
CarriesStartupConfig(req) ==
    /\ req.baseURL = API_URL
    /\ req.Authorization = <<"Bearer ">> \o API_TOKEN.s

\* C12: every outbound request, after any sequence of invocations, carries
\* the bearer credential and the base URL read from the environment at
\* startup, and no tool-call changes the credential or the base URL of the
\* client.
C12_RequestsCarryStartupConfig ==
    /\ \A s \in Slots : call[s].st = "await" => CarriesStartupConfig(call[s].req)
    /\ (Ended(last) /\ last.requests = 1) => CarriesStartupConfig(last.req)
    /\ (Ended(prev) /\ prev.requests = 1) => CarriesStartupConfig(prev.req)
    /\ pc = "serving" =>
          /\ stellify.baseURL = API_URL
          /\ stellify.Authorization = <<"Bearer ">> \o API_TOKEN.s

C12_Witness ==
    /\ failures >= 1
    /\ prev.st = "done"
    /\ prev.requests = 1
    /\ last.st = "done"
    /\ last.requests = 1
    /\ last.req.baseURL = Str("http://localhost:8000/api/v1")
    /\ last.req.Authorization = <<"Bearer ", "secret-token">>

\* C13: every method of the client sends one request; on a 2xx response it
\* returns the body of the response unchanged, and on any other response or
\* on a transport failure it throws the error of the request and returns
\* nothing.
C13_MethodReturnsBody ==
    /\ \A s \in Slots : call[s].st = "await" =>
          /\ call[s].requests = 1
          /\ call[s].req.method \in {"GET", "POST", "PUT", "DELETE"}
    /\ last.st \in {"returned", "threw"} =>
          /\ last.requests = 1
          /\ last.st = "returned" <=> Is2xx(last.resp)
          /\ last.st = "returned" => (last.result = last.resp.data /\ last.fault = NoError)
          /\ last.st = "threw" =>
                /\ last.result = Undef
                /\ last.fault.message = RejectionMessage(last.resp)

C13_Witness ==
    /\ last.st = "returned"
    /\ last.name = "createFile"
    /\ last.resp = Response(200, WrappedBody)
    /\ Get(Get(last.result, "data"), "uuid") = Str("abc-123")

\* The operation kind of a client method, by the verb of its name.
CreationMethods ==
    {"createFile", "createMethod", "createStatement", "createRoute", "createElement",
     "createModule", "createDirectory"}

FetchMethods ==
    {"getFile", "getMethod", "getStatement", "getRoute", "getElement", "getElementTree",
     "getGlobal", "getModule", "getDirectory", "getProject", "listGlobals", "listModules",
     "searchMethods", "searchFiles", "searchRoutes", "searchElements", "searchGlobalMethods"}

UpdateMethods ==
    {"saveFile", "saveMethod", "saveStatement", "saveDirectory", "updateElement"}

RemovalMethods == {"deleteElement", "removeFileFromModule", "deleteModule"}

VerbFollowsKind(method, verb) ==
    /\ method \in CreationMethods => verb = "POST"
    /\ method \in FetchMethods => verb = "GET"
    /\ method \in UpdateMethods => verb = "PUT"
    /\ method \in RemovalMethods => verb = "DELETE"
    /\ method \notin UpdateMethods => verb # "PUT"

\* C14: every request of a client method has the verb of the method's
\* kind: POST for creation, GET for fetch and search, PUT for update, DELETE
\* for removal; no fetch or search method sends POST and only update
\* methods send PUT.
C14_VerbFollowsKind ==
    \A s \in Slots : call[s].st = "await" => VerbFollowsKind(call[s].name, call[s].req.method)

\* The chunks of the message field of the envelope.
MessageOf(inv) == Get(inv.envelope.text, "message").s

Mentions(chunks, word) == \E i \in 1..Len(chunks) : chunks[i] = word

\* A creation tool was invoked with the name "Widget" and the remote
\* answered 2xx with {data: {uuid: "abc-123", name: "Widget", ...}}.
CreatedWidget ==
    /\ last.st = "done"
    /\ last.name \in CreationTools
    /\ last.args = MinimalBag(last.name)
    /\ Get(last.args, "name") = Str("Widget")
    /\ last.resp = Response(200, WrappedBody)

\* C15: a creation tool invoked with name N and answered 2xx with
\* {data: {uuid: U, name: N}} has sent one POST whose body has name N, and
\* its envelope has success=true and a message containing N and U.
C15_MessageNamesResource ==
    CreatedWidget =>
        /\ last.requests = 1
        /\ last.req.method = "POST"
        /\ Get(last.req.data, "name") = Str("Widget")
        /\ SuccessOf(last) = Bool(TRUE)
        /\ Mentions(MessageOf(last), "Widget")
        /\ Mentions(MessageOf(last), "abc-123")

\* A catalogue tool was invoked with a bag that lacks its required fields
\* or has them wrongly typed.
InvalidBagCall ==
    /\ Ended(last)
    /\ last.name \in ToolNames
    /\ last.args \in {EmptyBag, HostileBag(last.name)}
    /\ last.args # MinimalBag(last.name)

\* C16: nothing checks argument fields locally: a bag that lacks a required
\* field or has a wrongly typed one still has its request sent, and the
\* envelope is a failure only if the remote API rejected that request.
C16_NoLocalChecks ==
    InvalidBagCall =>
        /\ last.st = "done"
        /\ last.requests = 1
        /\ SuccessOf(last) = Bool(FALSE) => ~Is2xx(last.resp)

\* The base URL the environment asks for.
ConfiguredBaseURL ==
    IF env.url \in {Undef, Str("")} THEN Str("https://stellisoft.com/api/v1") ELSE env.url

\* C17: with the credential present startup does not depend on
\* STELLIFY_API_URL: when it is absent or empty every request goes to
\* https://stellisoft.com/api/v1, and when it is set to a non-empty value
\* every request goes to that value.
C17_BaseUrlDefaults ==
    Truthy(env.token) =>
        /\ pc = "exited" => stderr = <<"Server error:">>
        /\ pc \notin {"check_token", "new_client", "exited"} =>
              stellify.baseURL = ConfiguredBaseURL
        /\ \A s \in Slots : call[s].st = "await" => call[s].req.baseURL = ConfiguredBaseURL
        /\ (Ended(last) /\ last.requests = 1) => last.req.baseURL = ConfiguredBaseURL

C17_Witness ==
    /\ env.url = Str("")
    /\ pc = "serving"
    /\ last.st = "done"
    /\ last.requests = 1
    /\ last.req.baseURL = Str("https://stellisoft.com/api/v1")

\* The tools the README documents with "Parameters: None".
NoParameterTools == {"get_project", "list_globals", "list_modules"}

\* C18: a tool that takes no parameters can be called without arguments:
\* the call with the bag absent sends the request of the call with an empty
\* bag and ends with the envelope that call ends with.
C18_NoParametersNoBag ==
    (Ended(last) /\ last.name \in NoParameterTools /\ last.args = Undef) =>
        /\ last.st = "done"
        /\ last.requests = 1
        /\ last.req = ClientCall(last.name, EmptyBag).req
        /\ last.envelope = CallToolResume(last.name, EmptyBag, last.resp)

\* The required fields of a descriptor, as a set.
RequiredOf(descriptor) == {descriptor.required[i] : i \in 1..Len(descriptor.required)}

\* C19: for every tool the README documents, the parameters the README
\* marks as required are the required fields of the descriptor that
\* tools/list returns for the tool, under the same names.
C19_ReadmeMatchesCatalogue ==
    last.st = "listed" =>
        \A i \in 1..Len(listed.tools) :
            listed.tools[i].name \in DOMAIN ReadmeRequired =>
                RequiredOf(listed.tools[i]) = ReadmeRequired[listed.tools[i].name]

\* C20: the names of the catalogue are pairwise distinct and are the names
\* the switch has a case for: a call of an advertised tool never ends in
\* the unknown-tool error and a call of any other name always does.
C20_CatalogueIsTheSwitch ==
    /\ last.st = "listed" =>
          /\ \A i, j \in 1..Len(listed.tools) :
                listed.tools[i].name = listed.tools[j].name => i = j
          /\ {listed.tools[i].name : i \in 1..Len(listed.tools)} = CaseNames
    /\ (last.st = "done" /\ Truthy(last.args)) =>
          (last.name \in ToolNames <=> ErrorOf(last) # Text(<<"Unknown tool: ", last.name>>))

C20_Witness ==
    /\ prev.st = "unknown"
    /\ last.st = "done"
    /\ last.name = "create_directory"
    /\ last.requests = 1
    /\ SuccessOf(last) = Bool(TRUE)

\* C21: in every envelope the handler returns, isError is set exactly when
\* the JSON text has success=false.
C21_IsErrorIffFailure ==
    last.st = "done" => (last.envelope.isError <=> SuccessOf(last) = Bool(FALSE))

\* C22 as stated: an envelope reports failure only when the remote call
\* failed or was never issued; after a 2xx response it never does.
C22_NoFailureAfter2xx ==
    (last.st = "done" /\ Is2xx(last.resp)) => SuccessOf(last) # Bool(FALSE)

\* C22, amended: an envelope reports failure only when the request was
\* never issued, the remote call failed, or the case could not build its
\* answer from the 2xx body or from a wrongly typed argument. After a 2xx
\* response delete_element with an empty body {} reports success, and
\* search_elements with a body without data reports failure.
C22_FailureHasACause ==
    /\ (last.st = "done" /\ SuccessOf(last) = Bool(FALSE)) =>
          \/ last.requests = 0
          \/ ~Is2xx(last.resp)
          \/ last.name \notin PassThroughTools /\ ~Readable(last.name, last.resp.data)
          \/ ~Plain(last.args)
    /\ (last.st = "done" /\ last.name = "delete_element" /\ Plain(last.args)
          /\ last.resp = Response(200, EmptyBag)) => SuccessOf(last) = Bool(TRUE)
    /\ (last.st = "done" /\ last.name = "search_elements" /\ Is2xx(last.resp)
          /\ Nullish(Get(last.resp.data, "data"))) => SuccessOf(last) = Bool(FALSE)

C22_Witness ==
    /\ last.st = "done"
    /\ last.name = "search_elements"
    /\ last.requests = 1
    /\ last.resp = Response(200, FlatBody)
    /\ SuccessOf(last) = Bool(FALSE)
    /\ last.envelope.isError

\* The request run_code sends for the bag: PUT /code/{file}/{method} with
\* the bag without file and method as its body.
IsRunRequest(req, args) ==
    /\ req.method = "PUT"
    /\ req.url = <<"/code/">> \o Get(args, "file").s \o <<"/">> \o Get(args, "method").s
    /\ req.data = Stringify(Obj([f \in (DOMAIN args.o) \ {"file", "method"} |-> args.o[f]]))
    /\ req.params = Undef

FileAndMethodGiven(args) ==
    /\ Truthy(Get(args, "file"))
    /\ Truthy(Get(args, "method"))

\* C23: run_code with a bag in which file or method is missing or empty
\* sends no request and ends in a failure envelope with the message "Both
\* file and method UUIDs are required to run code"; with both given (as
\* strings) it sends exactly one PUT to /code/{file}/{method} whose body is
\* the bag without file and method.
C23_RunCodeNeedsFileAndMethod ==
    /\ \A s \in Slots : call[s].st = "await" =>
          /\ FileAndMethodGiven(call[s].args)
          /\ call[s].requests = 1
          /\ IsRunRequest(call[s].req, call[s].args)
    /\ (Ended(last) /\ Truthy(last.args) /\ ~FileAndMethodGiven(last.args)) =>
          /\ last.st = "done"
          /\ last.requests = 0
          /\ last.req = NoRequest
          /\ SuccessOf(last) = Bool(FALSE)
          /\ ErrorOf(last) = Text(<<"Both file and method UUIDs are required to run code">>)
    /\ (Ended(last) /\ Truthy(last.args) /\ FileAndMethodGiven(last.args)
          /\ Plain(last.args)) =>
          /\ last.requests = 1
          /\ IsRunRequest(last.req, last.args)

C23_Witness ==
    /\ last.st = "done"
    /\ prev.st = "failed"
    /\ last.requests = 1
    /\ last.req.url = <<"/code/", "file-1", "/", "method-1">>
    /\ last.req.data = Obj([timeout |-> Num(30), benchmark |-> Bool(TRUE)])
    /\ SuccessOf(last) = Bool(TRUE)

DetailsOf(inv) == Get(inv.envelope.text, "details")

\* The error the run ended with carries a response with a truthy body.
ErrorCarriesBody(inv) ==
    /\ inv.requests = 1
    /\ inv.resp.kind = "response"
    /\ ~Is2xx(inv.resp)
    /\ Truthy(inv.resp.data)

\* C24: a failure envelope always has a details field: the body of the
\* remote response when the thrown error carries a response with a truthy
\* body, and otherwise the string form of the error, "<name>: <message>".
C24_DetailsOfFailure ==
    (last.st = "done" /\ SuccessOf(last) = Bool(FALSE)) =>
        /\ DetailsOf(last) # Undef
        /\ IF ErrorCarriesBody(last)
           THEN DetailsOf(last) = Stringify(last.resp.data)
           ELSE /\ DetailsOf(last).k = "string"
                /\ \E n \in {"Error", "TypeError", "AxiosError"} :
                      DetailsOf(last).s = <<n, ": ">> \o ErrorOf(last).s

C24_Witness ==
    /\ last.st = "done"
    /\ last.resp = Response(500, Str(""))
    /\ DetailsOf(last) =
          Text(<<"AxiosError", ": ", "Request failed with status code ", "500">>)

\* The cases that unwrap the remote body with "result.data || result".
UnwrapTools ==
    {"get_project", "create_file", "create_method", "create_route", "get_route",
     "get_directory", "create_statement"}

\* The envelope field in which such a case places the resource.
UnwrappedField(name) ==
    CASE name = "get_project" -> "project"
      [] name = "create_file" -> "file"
      [] name = "create_method" -> "method"
      [] name \in {"create_route", "get_route"} -> "route"
      [] name = "get_directory" -> "directory"
      [] name = "create_statement" -> "statement"

Unwrapped(body) == IF Truthy(Get(body, "data")) THEN Get(body, "data") ELSE body

UnwrapCallAnswered ==
    /\ last.st = "done"
    /\ last.name \in UnwrapTools
    /\ Plain(last.args)
    /\ last.requests = 1
    /\ Is2xx(last.resp)
    /\ Readable(last.name, last.resp.data)

\* C25: a case that unwraps the remote body places the body's data field in
\* the success envelope when that field is truthy and the whole body
\* otherwise, and the UUID its message names (get_route names none) is the
\* uuid of that same unwrapped value.
C25_UuidOfUnwrappedValue ==
    UnwrapCallAnswered =>
        /\ SuccessOf(last) = Bool(TRUE)
        /\ Get(last.envelope.text, UnwrappedField(last.name))
              = Stringify(Unwrapped(last.resp.data))
        /\ last.name # "get_route" =>
              \A i \in DOMAIN Get(Unwrapped(last.resp.data), "uuid").s :
                 Mentions(MessageOf(last), Get(Unwrapped(last.resp.data), "uuid").s[i])

\* A tool was called with an argument bag of plain values and has ended.
CalledWithPlainBag(name) ==
    /\ last.st = "done"
    /\ last.name = name
    /\ last.args # Undef
    /\ Plain(last.args)

SavePath(name) == IF name = "save_file" THEN "/file/" ELSE "/method/"

\* C26: save_file and save_method send one PUT to /file/{uuid} (resp.
\* /method/{uuid}) whose body is the whole argument bag, uuid included, with
\* no field added, removed or renamed; the uuid of the path is the uuid of
\* the body.
C26_SaveSendsWholeBag ==
    \A name \in {"save_file", "save_method"} :
        CalledWithPlainBag(name) =>
            /\ last.requests = 1
            /\ last.req.method = "PUT"
            /\ last.req.url = <<SavePath(name)>> \o Get(last.args, "uuid").s
            /\ last.req.data = Stringify(last.args)
            /\ Get(last.req.data, "uuid") = Get(last.args, "uuid")

C26_Witness ==
    /\ CalledWithPlainBag("save_file")
    /\ last.req.url = <<"/file/", "uuid-1">>
    /\ last.req.data = Obj([uuid |-> Str("uuid-1"), name |-> Str("Widget"),
                            type |-> Str("type")])

\* C27: update_element sends one PUT to /element/{uuid} whose body is
\* exactly the data field of the argument bag; the uuid and every other
\* field of the bag are left out of the body.
C27_UpdateSendsDataOnly ==
    CalledWithPlainBag("update_element") =>
        /\ last.requests = 1
        /\ last.req.method = "PUT"
        /\ last.req.url = <<"/element/">> \o Get(last.args, "uuid").s
        /\ last.req.data = Stringify(Get(last.args, "data"))

C27_Witness ==
    /\ CalledWithPlainBag("update_element")
    /\ Get(last.args, "uuid") = Str("uuid-1")
    /\ last.req.url = <<"/element/", "uuid-1">>
    /\ last.req.data = Obj([f \in {"text"} |-> Str("Hello")])

\* C28: delete_element sends one DELETE to /element/null/null/{uuid} for
\* the uuid of the argument bag, and on a 2xx response with a readable body
\* the message and the deleted_count field of the success envelope both
\* report the deleted_count of that body.
C28_DeleteReportsRemoteCount ==
    CalledWithPlainBag("delete_element") =>
        /\ last.requests = 1
        /\ last.req.method = "DELETE"
        /\ last.req.url = <<"/element/", "null", "/", "null", "/">>
                             \o Get(last.args, "uuid").s
        /\ last.req.data = Undef
        /\ (Is2xx(last.resp) /\ Readable(last.name, last.resp.data)) =>
              /\ SuccessOf(last) = Bool(TRUE)
              /\ MessageOf(last) =
                    <<"Deleted element ">> \o Get(last.args, "uuid").s \o <<" and ">>
                       \o Get(last.resp.data, "deleted_count").s \o <<" total elements">>
              /\ Get(last.envelope.text, "deleted_count")
                    = Get(last.resp.data, "deleted_count")

C28_Witness ==
    /\ CalledWithPlainBag("delete_element")
    /\ last.req.url = <<"/element/", "null", "/", "null", "/", "uuid-1">>
    /\ last.resp = Response(200, FlatBody)
    /\ MessageOf(last) = <<"Deleted element ", "uuid-1", " and ", "2", " total elements">>
    /\ Get(last.envelope.text, "deleted_count") = Num(2)

\* The invocation is rejected at the dispatch boundary.
Rejected(name, args) == name \notin ToolNames \/ ~Truthy(args)

\* C29: an invocation rejected at the dispatch boundary (a name outside the
\* catalogue, or no argument bag) sends no HTTP request: it never waits for
\* a response, and it ends with no request and no response recorded.
C29_RejectedSendsNothing ==
    /\ \A s \in Slots : call[s].st # "idle" => ~Rejected(call[s].name, call[s].args)
    /\ (last.st \notin {"none", "listed"} /\ Rejected(last.name, last.args)) =>
          /\ Ended(last)
          /\ last.requests = 0
          /\ last.req = NoRequest
          /\ last.resp = NoResponse

C29_Witness ==
    /\ prev.st = "failed"
    /\ last.st = "done"
    /\ last.name = "no_such_tool"
    /\ last.args = EmptyBag
    /\ last.requests = 0
    /\ ErrorOf(last) = Text(<<"Unknown tool: ", "no_such_tool">>)

\* What each startup step finds done when it is the next to run.
StartupInOrder ==
    /\ pc \in {"check_token", "new_client"} => (stellify = NoClient /\ handlers = {})
    /\ pc = "set_list_handler" => (stellify # NoClient /\ handlers = {})
    /\ pc = "set_call_handler" => (stellify # NoClient /\ handlers = {"tools/list"})
    /\ pc \in {"main", "serving"} =>
          (stellify # NoClient /\ handlers = {"tools/list", "tools/call"})
    /\ pc # "serving" => stderr # <<"Stellify MCP server running on stdio">>

\* A request has been dispatched to a handler.
Dispatched ==
    \/ last.st # "none"
    \/ prev.st # "none"
    \/ listed # NoList
    \/ \E s \in Slots : call[s].st # "idle"

StartupStep ==
    pc' # pc =>
        <<pc, pc'>> \in {<<"check_token", "exited">>, <<"check_token", "new_client">>,
                         <<"new_client", "set_list_handler">>,
                         <<"set_list_handler", "set_call_handler">>,
                         <<"set_call_handler", "main">>,
                         <<"main", "serving">>, <<"main", "exited">>}

\* C30: startup runs in a fixed order: the credential check, the
\* construction of the client, the registration of the list-tools and then
\* of the call-tool handler, the attachment to the stdio channel; and no
\* request is dispatched before both handlers are registered, the client
\* exists and the channel is attached.
C30_StartupOrder ==
    /\ [](StartupInOrder /\ (Dispatched => (Serving /\ stellify # NoClient)))
    /\ [][StartupStep]_vars

C30_Witness ==
    /\ Serving
    /\ stderr = <<"Stellify MCP server running on stdio">>
    /\ last.st = "done"
    /\ last.requests = 1
    /\ last.req.baseURL = stellify.baseURL

====
